---------------------------- MODULE Spec2Model ----------------------------
(***************************************************************************)
(* Model of dashcam_analyzer.py (class DashcamAnalyzer): the batch run of  *)
(* run_analysis over the selected .dat files: read_and_parse_data per      *)
(* file, concatenation, clean_and_transform_data (typing, sort, trip       *)
(* detection) and generate_standalone_html (day -> trip -> point export    *)
(* and the write of the output document).                                  *)
(*                                                                         *)
(* Text is modelled as sequences of one-character strings, so that strip,  *)
(* the timestamp regex, split(','), strptime and to_numeric are computed   *)
(* on the characters as the code computes them.                            *)
(***************************************************************************)
EXTENDS Integers, Sequences, FiniteSets, TLC

VARIABLES
    pc,          \* position of run_analysis
    file_paths,  \* result of select_file(): the stems of the selected files
    idx,         \* 1-based position of the for loop over file_paths
    lines,       \* text lines of the file handed to the last read_and_parse_data
    nlines,      \* number of text lines read so far in this run
    all_dfs,     \* all_dfs: one tagged DataFrame (sequence of rows) per loaded file
    df,          \* self.df after pd.concat / clean_and_transform_data
    days_data,   \* the exported hierarchy built by generate_standalone_html
    written,     \* TRUE once map_visualisation.html has been written
    err          \* message of the exception caught by run_analysis, or NoError

vars == <<pc, file_paths, idx, lines, nlines, all_dfs, df, days_data, written, err>>

---------------------------------------------------------------------------
(* Bounds of the model. *)

\* at most this many files are selected in one run
MaxFiles == 2

\* at most this many text lines are read in one run (over all files)
MaxLines == 3

---------------------------------------------------------------------------
(* Characters and small text helpers. *)

Digits == {"0", "1", "2", "3", "4", "5", "6", "7", "8", "9"}

DigitVal(c) ==
    CASE c = "0" -> 0 [] c = "1" -> 1 [] c = "2" -> 2 [] c = "3" -> 3
      [] c = "4" -> 4 [] c = "5" -> 5 [] c = "6" -> 6 [] c = "7" -> 7
      [] c = "8" -> 8 [] c = "9" -> 9

\* code point of the characters that occur in day ids (str comparison order)
Ord(c) ==
    CASE c = "/" -> 47
      [] c \in Digits -> 48 + DigitVal(c)
      [] c = "a" -> 97 [] c = "c" -> 99 [] c = "m" -> 109

Whitespace == {" ", "\t", "\n", "\r"}

Range(s) == {s[i] : i \in 1..Len(s)}

Min(S) == CHOOSE x \in S : \A y \in S : x <= y

Max(S) == CHOOSE x \in S : \A y \in S : y <= x

\* value of a run of decimal digits
RECURSIVE DigitsToInt(_)
DigitsToInt(s) ==
    IF s = <<>> THEN 0
    ELSE 10 * DigitsToInt(SubSeq(s, 1, Len(s) - 1)) + DigitVal(s[Len(s)])

\* the two decimal digits of n, 0 <= n <= 99 (strftime %d, %m)
TwoDigits(n) == <<CHOOSE c \in Digits : DigitVal(c) = n \div 10,
                  CHOOSE c \in Digits : DigitVal(c) = n % 10>>

\* str.strip(): leading and trailing whitespace removed
RECURSIVE strip(_)
strip(s) ==
    IF s = <<>> THEN s
    ELSE IF s[1] \in Whitespace THEN strip(Tail(s))
    ELSE IF s[Len(s)] \in Whitespace THEN strip(SubSeq(s, 1, Len(s) - 1))
    ELSE s

\* str.split(','): the fields between the commas (always at least one field)
RECURSIVE split(_)
split(s) ==
    IF \A i \in 1..Len(s) : s[i] /= "," THEN <<s>>
    ELSE LET k == Min({i \in 1..Len(s) : s[i] = ","})
         IN  <<SubSeq(s, 1, k - 1)>> \o split(SubSeq(s, k + 1, Len(s)))

\* re.match(r'^\d{14},', line)
MatchesTimestampPrefix(line) ==
    /\ Len(line) >= 15
    /\ \A i \in 1..14 : line[i] \in Digits
    /\ line[15] = ","

\* ','.join(fields): used to write the input lines below
RECURSIVE join(_)
join(fields) ==
    IF Len(fields) = 1 THEN fields[1]
    ELSE fields[1] \o <<",">> \o join(Tail(fields))

---------------------------------------------------------------------------
(* Calendar: strptime / to_datetime on digit text. *)

IsLeap(y) == (y % 4 = 0 /\ y % 100 /= 0) \/ y % 400 = 0

DaysInMonth(y, m) ==
    IF m = 2 THEN (IF IsLeap(y) THEN 29 ELSE 28)
    ELSE IF m \in {4, 6, 9, 11} THEN 30 ELSE 31

\* days since 1970-01-01 of the civil date y-m-d
DaysFromCivil(y, m, d) ==
    LET yy  == IF m <= 2 THEN y - 1 ELSE y
        era == yy \div 400
        yoe == yy - era * 400
        mp  == (m + 9) % 12
        doy == (153 * mp + 2) \div 5 + d - 1
        doe == yoe * 365 + yoe \div 4 - yoe \div 100 + doy
    IN  era * 146097 + doe - 719468

\* pd.to_datetime(s, format='%Y%m%d%H%M%S') of one 14-digit text: the instant
\* in seconds since the epoch, or a ValueError when a field is out of range
to_datetime(s) ==
    LET y  == DigitsToInt(SubSeq(s, 1, 4))
        mo == DigitsToInt(SubSeq(s, 5, 6))
        d  == DigitsToInt(SubSeq(s, 7, 8))
        h  == DigitsToInt(SubSeq(s, 9, 10))
        mi == DigitsToInt(SubSeq(s, 11, 12))
        se == DigitsToInt(SubSeq(s, 13, 14))
        ok == /\ Len(s) = 14
              /\ \A i \in 1..Len(s) : s[i] \in Digits
              /\ mo \in 1..12
              /\ d \in 1..DaysInMonth(y, mo)
              /\ h \in 0..23 /\ mi \in 0..59 /\ se \in 0..59
    IN  IF ok
        THEN [ok |-> TRUE,
              value |-> DaysFromCivil(y, mo, d) * 86400 + h * 3600 + mi * 60 + se]
        ELSE [ok |-> FALSE, value |-> 0]

\* day id of a selected file: the stem parsed as %Y%m%d and printed as
\* %d/%m/%Y, or the stem itself when strptime raises ValueError
DayId(day_id_str) ==
    LET y  == DigitsToInt(SubSeq(day_id_str, 1, 4))
        mo == DigitsToInt(SubSeq(day_id_str, 5, 6))
        d  == DigitsToInt(SubSeq(day_id_str, 7, 8))
        ok == /\ Len(day_id_str) = 8
              /\ \A i \in 1..Len(day_id_str) : day_id_str[i] \in Digits
              /\ y >= 1
              /\ mo \in 1..12
              /\ d \in 1..DaysInMonth(y, mo)
    IN  IF ok
        THEN TwoDigits(d) \o <<"/">> \o TwoDigits(mo) \o <<"/">> \o SubSeq(day_id_str, 1, 4)
        ELSE day_id_str

\* pd.to_numeric of one text of the form [-]digits[.digits]: the decimal
\* m * 10^-e as [m, e]; any other text raises ValueError
to_numeric(s) ==
    LET neg  == s /= <<>> /\ s[1] = "-"
        body == IF neg THEN Tail(s) ELSE s
        dots == {i \in 1..Len(body) : body[i] = "."}
        k    == IF dots = {} THEN Len(body) + 1 ELSE Min(dots)
        ip   == SubSeq(body, 1, k - 1)
        fp   == SubSeq(body, k + 1, Len(body))
        ok   == /\ Cardinality(dots) <= 1
                /\ Len(ip) + Len(fp) >= 1
                /\ \A i \in 1..Len(ip) : ip[i] \in Digits
                /\ \A i \in 1..Len(fp) : fp[i] \in Digits
        mag  == DigitsToInt(ip \o fp)
    IN  IF ok
        THEN [ok |-> TRUE, m |-> IF neg THEN 0 - mag ELSE mag, e |-> Len(fp)]
        ELSE [ok |-> FALSE, m |-> 0, e |-> 0]

---------------------------------------------------------------------------
(* Inputs: the stems of the files that can be selected and the text lines  *)
(* a file can hold.                                                        *)

\* "20240102.dat": a stem that parses as a date
StemDate == <<"2", "0", "2", "4", "0", "1", "0", "2">>

\* "cam.dat": a stem that does not
StemName == <<"c", "a", "m">>

Stems == {StemDate, StemName}

\* 2023-12-31 23:45:00
TS0 == <<"2", "0", "2", "3", "1", "2", "3", "1", "2", "3", "4", "5", "0", "0">>

\* 2024-01-01 00:15:00, 1800 seconds after TS0
TS1 == <<"2", "0", "2", "4", "0", "1", "0", "1", "0", "0", "1", "5", "0", "0">>

\* 2024-01-01 00:15:01, 1801 seconds after TS0
TS2 == <<"2", "0", "2", "4", "0", "1", "0", "1", "0", "0", "1", "5", "0", "1">>

\* 14 digits that are no calendar instant (month 13)
TSBad == <<"2", "0", "2", "4", "1", "3", "0", "1", "0", "8", "0", "0", "0", "0">>

\* 2024-01-01 00:45:00, 3600 seconds after TS0
TS3 == <<"2", "0", "2", "4", "0", "1", "0", "1", "0", "0", "4", "5", "0", "0">>

LatText == <<"4", "8", ".", "5">>

LonText == <<"2", ".", "5">>

LineT0 == join(<<TS0, LatText, <<"N">>, LonText, <<"E">>, <<"1">>, <<"0">>>>)

LineT1 == join(<<TS1, LatText, <<"S">>, LonText, <<"W">>, <<"1">>, <<"0">>>>)

LineT2 == join(<<TS2, LatText, <<"N">>, LonText, <<"W">>, <<"1">>, <<"0">>>>)

\* on the equator and on the prime meridian, flagged S and W
LineT3 == join(<<TS3, <<"0">>, <<"S">>, <<"0">>, <<"W">>, <<"1">>, <<"0">>>>)

\* eight fields
LineExtra == join(<<TS1, LatText, <<"N">>, LonText, <<"E">>, <<"1">>, <<"0">>, <<"9">>>>)

\* seven fields, timestamp not a calendar instant
LineBadDate == join(<<TSBad, LatText, <<"N">>, LonText, <<"E">>, <<"1">>, <<"0">>>>)

\* seven fields, latitude not a number
LineBadLat == join(<<TS0, <<"x">>, <<"N">>, LonText, <<"E">>, <<"1">>, <<"0">>>>)

\* six fields
LineShort == join(<<TS0, LatText, <<"N">>, LonText, <<"E">>, <<"1">>>>)

\* no 14-digit timestamp in front
LineNoStamp == join(<<<<"x">>, LatText, <<"N">>, LonText, <<"E">>, <<"1">>, <<"0">>>>)

LineBlank == <<" ", "\n">>

LineComment == <<"#", "x", "\n">>

Lines == {LineT0, LineT1, LineT2, LineExtra, LineBadDate, LineBadLat,
          LineShort, LineNoStamp, LineBlank, LineComment}

\* the lines that parse and convert; files made of them reach the export
ValidLines == {LineT0, LineT1, LineT2, LineT3}

\* the sequences over S of length at most n
SeqsUpTo(S, n) == UNION {[1..k -> S] : k \in 0..n}

---------------------------------------------------------------------------
(* read_and_parse_data *)

NoError == "none"

ErrNoDataInFile == "Aucune donnee valide trouvee dans le fichier"

ErrNoDataInFiles == "Aucune donnee valide trouvee dans les fichiers selectionnes."

\* pd.DataFrame(data_lines, columns=[7 names]) with a row of another length
ErrColumns == "ValueError: 7 columns passed, passed data had more columns"

\* pd.to_datetime / pd.to_numeric on a text that does not parse
ErrValue == "ValueError: unable to parse"

\* the line is skipped without a diagnostic: blank or comment (lines 47-51)
IsSkipped(line) ==
    LET l == strip(line) IN l = <<>> \/ l[1] = "#"

\* the line is appended to data_lines (lines 54-57)
IsAccepted(line) ==
    LET l == strip(line)
    IN  /\ ~IsSkipped(line)
        /\ MatchesTimestampPrefix(l)
        /\ Len(split(l)) >= 7

\* data_lines after the loop over the file: split(',') of every accepted
\* line, in file order
RECURSIVE data_lines_of(_)
data_lines_of(file) ==
    IF file = <<>> THEN <<>>
    ELSE IF IsAccepted(file[1])
         THEN <<split(strip(file[1]))>> \o data_lines_of(Tail(file))
         ELSE data_lines_of(Tail(file))

\* one row of the DataFrame built from a 7-field list
RowOf(parts) ==
    [timestamp_str |-> parts[1], lat |-> parts[2], lat_indicator |-> parts[3],
     lon |-> parts[4], lon_indicator |-> parts[5],
     data_1 |-> parts[6], data_2 |-> parts[7]]

\* read_and_parse_data without the check of lines 66-67: a file with no
\* accepted line gives an empty DataFrame
read_and_parse_data_ReturnsEmpty(file) ==
    LET data_lines == data_lines_of(file)
    IN  IF \E i \in 1..Len(data_lines) : Len(data_lines[i]) /= 7
        THEN [exc |-> ErrColumns, df |-> <<>>]
        ELSE [exc |-> NoError,
              df  |-> [i \in 1..Len(data_lines) |-> RowOf(data_lines[i])]]

\* read_and_parse_data(file_path) on a file holding `file`: the exception it
\* raises (NoError when it returns) and the DataFrame it returns
read_and_parse_data(file) ==
    LET data_lines == data_lines_of(file)
    IN  IF data_lines = <<>>
        THEN [exc |-> ErrNoDataInFile, df |-> <<>>]
        ELSE IF \E i \in 1..Len(data_lines) : Len(data_lines[i]) /= 7
        THEN [exc |-> ErrColumns, df |-> <<>>]
        ELSE [exc |-> NoError,
              df  |-> [i \in 1..Len(data_lines) |-> RowOf(data_lines[i])]]

---------------------------------------------------------------------------
(* clean_and_transform_data *)

trip_threshold == 30 * 60

\* the multiplication by -1 left out
Negated_Unchanged(x) == x

\* -1 * x for a decimal
Negated(x) == [x EXCEPT !.m = 0 - x.m]

\* lines 82-95 raise: a timestamp_str, lat, lon, data_1 or data_2 of some row
\* does not convert
ConversionFails(d) ==
    \E i \in 1..Len(d) :
        \/ ~to_datetime(d[i].timestamp_str).ok
        \/ ~to_numeric(d[i].lat).ok
        \/ ~to_numeric(d[i].lon).ok
        \/ ~to_numeric(d[i].data_1).ok
        \/ ~to_numeric(d[i].data_2).ok

\* lines 82-95 on one row: datetime, signed latitude and longitude, numeric
\* data_1 and data_2
TypedRow(r) ==
    [timestamp_str |-> r.timestamp_str, day_id |-> r.day_id,
     lat |-> r.lat, lat_indicator |-> r.lat_indicator,
     lon |-> r.lon, lon_indicator |-> r.lon_indicator,
     datetime  |-> to_datetime(r.timestamp_str).value,
     latitude  |-> IF r.lat_indicator = <<"S">>
                   THEN Negated(to_numeric(r.lat)) ELSE to_numeric(r.lat),
     longitude |-> IF r.lon_indicator = <<"W">>
                   THEN Negated(to_numeric(r.lon)) ELSE to_numeric(r.lon),
     data_1 |-> to_numeric(r.data_1), data_2 |-> to_numeric(r.data_2)]

Typed(d) == [i \in 1..Len(d) |-> TypedRow(d[i])]

\* the permutations of 1..n
Perms(n) == {p \in [1..n -> 1..n] : \A i, j \in 1..n : p[i] = p[j] => i = j}

\* df.sort_values('datetime').reset_index(drop=True): the rows in ascending
\* datetime. The default kind is quicksort, which fixes no order among rows
\* of equal datetime: every ascending arrangement is an outcome.
sort_values(d) ==
    {[i \in 1..Len(d) |-> d[p[i]]] : p \in
        {q \in Perms(Len(d)) :
            \A i \in 1..(Len(d) - 1) : d[q[i]].datetime <= d[q[i + 1]].datetime}}

\* df['datetime'].diff().dt.total_seconds().fillna(0) at row i (line 110)
time_diff(s, i) == IF i = 1 THEN 0 ELSE s[i].datetime - s[i - 1].datetime

\* the comparison of line 115 with >= for >
ExceedsThreshold_AtLeast(x) == x >= trip_threshold

\* the comparison of line 115: the row opens a new trip
ExceedsThreshold(x) == x > trip_threshold

\* groupby('day_id')['time_diff'].transform(lambda x: (x > trip_threshold)
\* .cumsum()) at row i (line 115): the number of rows of the same day id, up
\* to and including row i, whose time_diff exceeds the threshold
trip_id(s, i) ==
    Cardinality({j \in 1..i : /\ s[j].day_id = s[i].day_id
                              /\ ExceedsThreshold(time_diff(s, j))})

\* lines 110-117 on the sorted rows
Segmented(s) ==
    [i \in 1..Len(s) |->
        [timestamp_str |-> s[i].timestamp_str, day_id |-> s[i].day_id,
         lat |-> s[i].lat, lat_indicator |-> s[i].lat_indicator,
         lon |-> s[i].lon, lon_indicator |-> s[i].lon_indicator,
         datetime |-> s[i].datetime,
         latitude |-> s[i].latitude, longitude |-> s[i].longitude,
         data_1 |-> s[i].data_1, data_2 |-> s[i].data_2,
         time_diff |-> time_diff(s, i), trip_id |-> trip_id(s, i)]]

\* the DataFrames clean_and_transform_data can leave in self.df
clean_and_transform_data(d) == {Segmented(s) : s \in sort_values(Typed(d))}

---------------------------------------------------------------------------
(* generate_standalone_html: the exported hierarchy *)

\* a < b for two texts, as Python compares str (by code point, then length)
StrLess(a, b) ==
    \E k \in 1..(Len(a) + 1) :
        /\ \A i \in 1..(k - 1) : i <= Len(b) /\ a[i] = b[i]
        /\ \/ k = Len(a) + 1 /\ Len(b) >= k
           \/ k <= Len(a) /\ k <= Len(b) /\ Ord(a[k]) < Ord(b[k])

\* the texts of S in ascending order: the key order of groupby('day_id')
RECURSIVE SortedTexts(_)
SortedTexts(S) ==
    IF S = {} THEN <<>>
    ELSE LET m == CHOOSE x \in S : \A y \in S \ {x} : StrLess(x, y)
         IN  <<m>> \o SortedTexts(S \ {m})

\* the integers of S in ascending order: the key order of groupby('trip_id')
RECURSIVE SortedInts(_)
SortedInts(S) ==
    IF S = {} THEN <<>> ELSE <<Min(S)>> \o SortedInts(S \ {Min(S)})

(* _calculate_distance_for_df. Floating-point values are modelled in fixed  *)
(* point: the integer n stands for n / 10000.                              *)

RECURSIVE Pow10(_)
Pow10(e) == IF e = 0 THEN 1 ELSE 10 * Pow10(e - 1)

\* float(x) of a decimal [m, e]
ToFix(x) == IF x.e >= 4 THEN x.m \div Pow10(x.e - 4) ELSE x.m * Pow10(4 - x.e)

FixMul(a, b) == (a * b) \div 10000

\* math.radians: x * pi / 180, pi / 180 = 0.0174533
radians(x) == (x * 174) \div 10000 + (x * 533) \div 10000000

\* math.sin for |x| <= pi, by its Taylor series up to x^13
sin(x) ==
    LET x2 == FixMul(x, x)
        t6 == 10000 - x2 \div 156
        t5 == 10000 - FixMul(x2, t6) \div 110
        t4 == 10000 - FixMul(x2, t5) \div 72
        t3 == 10000 - FixMul(x2, t4) \div 42
        t2 == 10000 - FixMul(x2, t3) \div 20
        t1 == 10000 - FixMul(x2, t2) \div 6
    IN  FixMul(x, t1)

\* math.cos for |x| <= pi / 2, by its Taylor series up to x^12
cos(x) ==
    LET x2 == FixMul(x, x)
        t6 == 10000 - x2 \div 132
        t5 == 10000 - FixMul(x2, t6) \div 90
        t4 == 10000 - FixMul(x2, t5) \div 56
        t3 == 10000 - FixMul(x2, t4) \div 30
        t2 == 10000 - FixMul(x2, t3) \div 12
    IN  10000 - FixMul(x2, t2) \div 2

\* the greatest n in lo..hi with n * n <= v
RECURSIVE RootBetween(_, _, _)
RootBetween(v, lo, hi) ==
    IF lo >= hi THEN lo
    ELSE LET mid == (lo + hi + 1) \div 2
         IN  IF mid * mid <= v THEN RootBetween(v, mid, hi)
             ELSE RootBetween(v, lo, mid - 1)

\* math.sqrt for 0 <= x <= 1
sqrt(x) == RootBetween(x * 10000, 0, 10000)

\* the greatest t in lo..hi with sin(t) <= y
RECURSIVE ArcBetween(_, _, _)
ArcBetween(y, lo, hi) ==
    IF lo >= hi THEN lo
    ELSE LET mid == (lo + hi + 1) \div 2
         IN  IF sin(mid) <= y THEN ArcBetween(y, mid, hi)
             ELSE ArcBetween(y, lo, mid - 1)

\* math.asin for 0 <= y <= 1: the arc in 0..pi/2 (15708) whose sine is y
asin(y) == ArcBetween(y, 0, 15708)

\* haversine(lon1, lat1, lon2, lat2) of lines 232-240, in km
haversine(lon1, lat1, lon2, lat2) ==
    LET rlon1 == radians(ToFix(lon1))
        rlat1 == radians(ToFix(lat1))
        rlon2 == radians(ToFix(lon2))
        rlat2 == radians(ToFix(lat2))
        dlon  == rlon2 - rlon1
        dlat  == rlat2 - rlat1
        sdlat == sin(dlat \div 2)
        sdlon == sin(dlon \div 2)
        a     == FixMul(sdlat, sdlat)
                 + FixMul(FixMul(cos(rlat1), cos(rlat2)), FixMul(sdlon, sdlon))
        c     == 2 * asin(sqrt(a))
        r     == 6371
    IN  c * r

\* the sum of the haversine distances of the rows i-1 and i, i = from..Len(d)
RECURSIVE DistanceFrom(_, _)
DistanceFrom(d, from) ==
    IF from > Len(d) THEN 0
    ELSE haversine(d[from - 1].longitude, d[from - 1].latitude,
                   d[from].longitude, d[from].latitude)
         + DistanceFrom(d, from + 1)

\* _calculate_distance_for_df with total_distance -= distance
calculate_distance_for_df_Subtracting(d) ==
    IF Len(d) > 1 THEN 0 - DistanceFrom(d, 2) ELSE 0

\* _calculate_distance_for_df(df) of lines 228-253: the rows hold numbers
\* already, so to_numeric(errors='coerce').dropna() keeps them all
calculate_distance_for_df(d) ==
    IF Len(d) > 1 THEN DistanceFrom(d, 2) ELSE 0

\* the rows of d of one group, in the order of d
GroupRows(d, day, trip) ==
    LET InGroup(r) == r.day_id = day /\ r.trip_id = trip
    IN  SelectSeq(d, InGroup)

\* the decimal text of a natural number, as an f-string formats an int
RECURSIVE IntToText(_)
IntToText(n) ==
    IF n < 10 THEN <<CHOOSE c \in Digits : DigitVal(c) = n>>
    ELSE Append(IntToText(n \div 10),
                CHOOSE c \in Digits : DigitVal(c) = n % 10)

\* datetime.strftime('%H:%M:%S'): the time of day, the date is dropped
strftime(t) ==
    LET s == t % 86400
    IN  TwoDigits(s \div 3600) \o <<":">> \o TwoDigits((s % 3600) \div 60)
            \o <<":">> \o TwoDigits(s % 60)

\* lines 403-406: the label of a duration of total_seconds seconds
duration_str_MinutesOfTotal(total_seconds) ==
    LET hours   == total_seconds \div 3600
        minutes == total_seconds \div 60
    IN  IF hours > 0
        THEN IntToText(hours) \o <<"h", " ">> \o IntToText(minutes)
                 \o <<"m", "i", "n">>
        ELSE IntToText(minutes) \o <<"m", "i", "n">>

duration_str(total_seconds) ==
    LET hours   == total_seconds \div 3600
        minutes == (total_seconds % 3600) \div 60
    IN  IF hours > 0
        THEN IntToText(hours) \o <<"h", " ">> \o IntToText(minutes)
                 \o <<"m", "i", "n">>
        ELSE IntToText(minutes) \o <<"m", "i", "n">>

\* lines 408-417: the loop `while current_time <= end_time` appends one group
\* per turn and advances current_time by 30 seconds, so turn k (from 0) is
\* taken exactly when start_time + 30 * k passes the guard
time_groups_Strict(start_time, end_time) ==
    LET turns == {k \in 0..(end_time - start_time) :
                     start_time + 30 * k < end_time}
    IN  [i \in 1..Cardinality(turns) |->
            [index |-> i - 1, time |-> strftime(start_time + 30 * (i - 1))]]

time_groups(start_time, end_time) ==
    LET turns == {k \in 0..(end_time - start_time) :
                     start_time + 30 * k <= end_time}
    IN  [i \in 1..Cardinality(turns) |->
            [index |-> i - 1, time |-> strftime(start_time + 30 * (i - 1))]]

\* one entry of `points` (lines 389-395)
PointOf(r) ==
    [lat |-> r.latitude, lon |-> r.longitude, time |-> strftime(r.datetime),
     datetime |-> r.datetime]

\* one entry of `trips` (lines 386-431)
TripOf(d, day, trip) ==
    LET trip_df == GroupRows(d, day, trip)
        times   == {trip_df[i].datetime : i \in 1..Len(trip_df)}
        start_time == Min(times)
        end_time   == Max(times)
    IN  [id |-> trip,
         points |-> [i \in 1..Len(trip_df) |-> PointOf(trip_df[i])],
         time_groups |-> time_groups(start_time, end_time),
         start_time |-> start_time,
         end_time |-> end_time,
         point_count |-> Len(trip_df),
         duration_str |-> duration_str(end_time - start_time),
         distance_km |-> calculate_distance_for_df(trip_df)]

\* new Date(`1970-01-01T${time}Z`).getTime() of lines 570 and 572, in
\* seconds: the time of day of an "HH:MM:SS" text
getTime(time) ==
    DigitsToInt(SubSeq(time, 1, 2)) * 3600 + DigitsToInt(SubSeq(time, 4, 5)) * 60
        + DigitsToInt(SubSeq(time, 7, 8))

\* lines 569-572 of updateMapDisplay(sliderValue): the points the document
\* draws when the slider stands at sliderValue
visiblePoints(tripData, sliderValue) ==
    LET targetTimeStr == tripData.time_groups[sliderValue + 1].time
        targetTime    == getTime(targetTimeStr)
        Shown(p)      == getTime(p.time) <= targetTime
    IN  SelectSeq(tripData.points, Shown)

\* one entry of days_data (lines 384-432)
DayOf(d, day) ==
    LET ids == SortedInts({d[i].trip_id : i \in {j \in 1..Len(d) : d[j].day_id = day}})
    IN  [day_id |-> day,
         trips  |-> [k \in 1..Len(ids) |-> TripOf(d, day, ids[k])]]

\* days_data of generate_standalone_html for self.df = d
Export(d) ==
    LET days == SortedTexts({d[i].day_id : i \in 1..Len(d)})
    IN  [k \in 1..Len(days) |-> DayOf(d, days[k])]

---------------------------------------------------------------------------
(* run_analysis *)

\* open() or the utf-8 decoding of the file failed (line 64)
ErrRead == "Erreur lors de la lecture du fichier"

\* df['day_id'] = day_id_formatted (line 349)
Tagged(d, day) ==
    [i \in 1..Len(d) |->
        [timestamp_str |-> d[i].timestamp_str, day_id |-> day,
         lat |-> d[i].lat, lat_indicator |-> d[i].lat_indicator,
         lon |-> d[i].lon, lon_indicator |-> d[i].lon_indicator,
         data_1 |-> d[i].data_1, data_2 |-> d[i].data_2]]

\* pd.concat(all_dfs, ignore_index=True)
RECURSIVE concat(_)
concat(dfs) == IF dfs = <<>> THEN <<>> ELSE dfs[1] \o concat(Tail(dfs))

Init ==
    /\ pc = "select"
    /\ file_paths = <<>>
    /\ idx = 1
    /\ lines = <<>>
    /\ nlines = 0
    /\ all_dfs = <<>>
    /\ df = <<>>
    /\ days_data = <<>>
    /\ written = FALSE
    /\ err = NoError

\* lines 331-334: the dialog returns the selection; an empty one ends the run
SelectFiles ==
    /\ pc = "select"
    /\ \E fp \in SeqsUpTo(Stems, MaxFiles) :
        /\ file_paths' = fp
        /\ pc' = IF fp = <<>> THEN "cancelled" ELSE "load"
    /\ UNCHANGED <<idx, lines, nlines, all_dfs, df, days_data, written, err>>

\* lines 337-350, one iteration: the file is read and parsed; an exception of
\* read_and_parse_data leaves the loop for the handler of lines 370-372
LoadFrom(alphabet) ==
    /\ pc = "load"
    /\ idx <= Len(file_paths)
    /\ \E file \in SeqsUpTo(alphabet, MaxLines - nlines) :
        LET r == read_and_parse_data(file)
            d == Tagged(r.df, DayId(file_paths[idx]))
        IN  /\ lines' = file
            /\ nlines' = nlines + Len(file)
            /\ IF r.exc /= NoError
               THEN /\ pc' = "error"
                    /\ err' = r.exc
                    /\ UNCHANGED <<idx, all_dfs, df>>
               ELSE /\ df' = d
                    /\ all_dfs' = IF d /= <<>> THEN Append(all_dfs, d) ELSE all_dfs
                    /\ idx' = idx + 1
                    /\ UNCHANGED <<pc, err>>
    /\ UNCHANGED <<file_paths, days_data, written>>

\* the iteration on a file of any lines
LoadFile == LoadFrom(Lines)

\* the iteration on a file of valid lines
LoadValidFile == LoadFrom(ValidLines)

\* lines 44-64 and 337-347: the file cannot be opened or decoded
LoadUnreadable ==
    /\ pc = "load"
    /\ idx <= Len(file_paths)
    /\ pc' = "error"
    /\ err' = ErrRead
    /\ lines' = <<>>
    /\ UNCHANGED <<file_paths, idx, nlines, all_dfs, df, days_data, written>>

\* run_analysis with the document written right after pd.concat, before
\* clean_and_transform_data
Transform_WritesBeforeCleaning ==
    /\ pc = "load"
    /\ idx > Len(file_paths)
    /\ IF all_dfs = <<>>
       THEN /\ pc' = "error"
            /\ err' = ErrNoDataInFiles
            /\ UNCHANGED <<df, written>>
       ELSE IF ConversionFails(concat(all_dfs))
       THEN /\ pc' = "error"
            /\ err' = ErrValue
            /\ df' = concat(all_dfs)
            /\ written' = TRUE
       ELSE /\ df' \in clean_and_transform_data(concat(all_dfs))
            /\ pc' = "generate"
            /\ written' = TRUE
            /\ UNCHANGED err
    /\ UNCHANGED <<file_paths, idx, lines, nlines, all_dfs, days_data>>

\* lines 352-358: after the loop, the aggregate check, pd.concat and
\* clean_and_transform_data
Transform ==
    /\ pc = "load"
    /\ idx > Len(file_paths)
    /\ IF all_dfs = <<>>
       THEN /\ pc' = "error"
            /\ err' = ErrNoDataInFiles
            /\ UNCHANGED df
       ELSE IF ConversionFails(concat(all_dfs))
       THEN /\ pc' = "error"
            /\ err' = ErrValue
            /\ df' = concat(all_dfs)
       ELSE /\ df' \in clean_and_transform_data(concat(all_dfs))
            /\ pc' = "generate"
            /\ UNCHANGED err
    /\ UNCHANGED <<file_paths, idx, lines, nlines, all_dfs, days_data, written>>

\* line 361: generate_standalone_html builds days_data and writes the document
Generate ==
    /\ pc = "generate"
    /\ days_data' = Export(df)
    /\ written' = TRUE
    /\ pc' = "open"
    /\ UNCHANGED <<file_paths, idx, lines, nlines, all_dfs, df, err>>

\* lines 363-368: the browser is opened and the summary printed
Finish ==
    /\ pc = "open"
    /\ pc' = "done"
    /\ UNCHANGED <<file_paths, idx, lines, nlines, all_dfs, df, days_data, written, err>>

Next ==
    \/ SelectFiles
    \/ LoadFile
    \/ LoadUnreadable
    \/ Transform
    \/ Generate
    \/ Finish

Spec == Init /\ [][Next]_vars

\* the runs over files that hold valid lines only
NextValid ==
    \/ SelectFiles
    \/ LoadValidFile
    \/ LoadUnreadable
    \/ Transform
    \/ Generate
    \/ Finish

SpecValid == Init /\ [][NextValid]_vars

---------------------------------------------------------------------------
(* Properties of trip segmentation, stated on the exported hierarchy. *)

\* the trips of the export, as <<day index, trip index>> pairs
ExportedTrips ==
    UNION {{<<k, j>> : j \in DOMAIN days_data[k].trips} : k \in DOMAIN days_data}

\* C1: in every exported Trip any two consecutive Points are separated by at
\* most 1800 seconds, also when the sources of several day ids interleave.
C1_GapWithinTrip ==
    \A t \in ExportedTrips :
        LET points == days_data[t[1]].trips[t[2]].points
        IN  \A i \in 1..(Len(points) - 1) :
                points[i + 1].datetime - points[i].datetime <= 1800

\* C2: for every day id of the export the trip ids are 0..n-1 in order: the
\* first Trip of the day has id 0, whatever other day ids the run holds.
C2_TripIdsFromZero ==
    \A k \in DOMAIN days_data :
        \A j \in DOMAIN days_data[k].trips : days_data[k].trips[j].id = j - 1

\* C3: for every day id and every two consecutive trips of it, the first
\* Point of the later trip is strictly more than 1800 seconds after the last
\* Point of the earlier one; a gap of exactly 1800 seconds between two
\* Points of a day that follow each other never separates them.
C3_TripsSeparated ==
    /\ \A k \in DOMAIN days_data :
        \A j \in 1..(Len(days_data[k].trips) - 1) :
            LET last  == days_data[k].trips[j].points[Len(days_data[k].trips[j].points)]
                first == days_data[k].trips[j + 1].points[1]
            IN  /\ days_data[k].trips[j + 1].id = days_data[k].trips[j].id + 1
                /\ first.datetime - last.datetime > 1800
    /\ pc \in {"generate", "open", "done"} =>
        \A i, j \in 1..Len(df) :
            ( /\ i < j
              /\ df[i].day_id = df[j].day_id
              /\ \A m \in (i + 1)..(j - 1) : df[m].day_id /= df[i].day_id
              /\ df[j].datetime - df[i].datetime <= 1800 )
            => df[i].trip_id = df[j].trip_id

\* a day of the export split into two trips, 1801 seconds apart
C3_Witness ==
    /\ pc = "done"
    /\ \E k \in DOMAIN days_data :
        /\ Len(days_data[k].trips) >= 2
        /\ days_data[k].trips[2].points[1].datetime
             - days_data[k].trips[1].points[Len(days_data[k].trips[1].points)].datetime
           = 1801

\* the arrangements of s
Arrangements(s) == {[i \in 1..Len(s) |-> s[p[i]]] : p \in Perms(Len(s))}

\* the inputs that hold the same records as dfs: the sources in another
\* order, the lines of each source in another order
Orderings(dfs) ==
    UNION {{concat(x) : x \in {y \in [1..Len(dfs) -> UNION {Arrangements(dfs[i]) : i \in 1..Len(dfs)}] :
                                 \A i \in 1..Len(dfs) : y[i] \in Arrangements(a[i])}}
           : a \in Arrangements(dfs)}

\* which trip of which day every record was put in: the segmented rows
\* without their position and time_diff, with multiplicity
Membership(d) ==
    LET key(r) == <<r.day_id, r.timestamp_str, r.lat, r.lat_indicator,
                    r.lon, r.lon_indicator, r.trip_id>>
        keys   == {key(d[i]) : i \in 1..Len(d)}
    IN  [x \in keys |-> Cardinality({i \in 1..Len(d) : key(d[i]) = x})]

\* C4: segmentation depends on the multiset of records only: every ordering
\* of the sources and of their lines gives every Point the same trip of the
\* same day as this run did.
C4_OrderIndependent ==
    pc = "done" =>
        \A o \in Orderings(all_dfs) :
            \A d \in clean_and_transform_data(o) : Membership(d) = Membership(df)

---------------------------------------------------------------------------
(* Properties of loading. *)

\* the last step was a read_and_parse_data of a readable file holding `lines`
AfterLoad ==
    \/ pc = "load" /\ idx > 1
    \/ pc = "error" /\ err \in {ErrNoDataInFile, ErrColumns}

\* the line has a 14-digit timestamp in front and at least 7 fields
IsDataLine(line) ==
    /\ MatchesTimestampPrefix(strip(line))
    /\ Len(split(strip(line))) >= 7

\* the line is rejected with a diagnostic
IsRejected(line) == ~IsSkipped(line) /\ ~IsDataLine(line)

\* one record per data line of the file, made of its first 7 fields
RECURSIVE ExpectedRecords(_)
ExpectedRecords(file) ==
    IF file = <<>> THEN <<>>
    ELSE IF ~IsSkipped(file[1]) /\ IsDataLine(file[1])
         THEN <<RowOf(SubSeq(split(strip(file[1])), 1, 7))>> \o ExpectedRecords(Tail(file))
         ELSE ExpectedRecords(Tail(file))

\* C5: a source with rejected lines and at least one line that parses loads:
\* it yields one record per accepted line, in file order, and none from a
\* rejected, blank or comment line.
C5_RejectionIsLocal ==
    ( /\ AfterLoad
      /\ \E i \in 1..Len(lines) : IsRejected(lines[i])
      /\ \E i \in 1..Len(lines) : ~IsSkipped(lines[i]) /\ IsDataLine(lines[i]) )
    => /\ pc = "load"
       /\ df = Tagged(ExpectedRecords(lines), DayId(file_paths[idx - 1]))

\* C6: a data line of more than 7 fields is accepted: the source loads and
\* the line's first 7 fields are one of its records.
C6_ExtraFieldsIgnored ==
    \A i \in 1..Len(lines) :
        ( /\ AfterLoad
          /\ ~IsSkipped(lines[i]) /\ IsDataLine(lines[i])
          /\ Len(split(strip(lines[i]))) > 7 )
        => /\ pc = "load"
           /\ \E n \in 1..Len(df) :
                Tagged(<<RowOf(SubSeq(split(strip(lines[i])), 1, 7))>>,
                       DayId(file_paths[idx - 1]))[1] = df[n]

\* C7: reading a readable source none of whose lines is accepted ends the run
\* in the error "no usable data in the file"; nothing is returned for it.
C7_NoUsableDataIsAnError ==
    [][ ( /\ pc = "load" /\ idx <= Len(file_paths)
          /\ err' /= ErrRead
          /\ \A i \in 1..Len(lines') : IsSkipped(lines'[i]) \/ IsRejected(lines'[i]) )
        => ( /\ pc' = "error"
             /\ err' = ErrNoDataInFile
             /\ all_dfs' = all_dfs
             /\ idx' = idx ) ]_vars

\* a file of comments, blank and rejected lines only was read
C7_Witness ==
    /\ pc = "error"
    /\ err = ErrNoDataInFile
    /\ \E i \in 1..Len(lines) : IsSkipped(lines[i])
    /\ \E i \in 1..Len(lines) : IsRejected(lines[i])

\* C8: when every selected source failed or yielded no record, the run ends
\* in the aggregate error "no usable data in the selected files", not in the
\* error of a single source.
C8_AggregateError ==
    (pc = "error" /\ Len(file_paths) = 1 /\ all_dfs = <<>>) => err = ErrNoDataInFiles

---------------------------------------------------------------------------
(* Properties of the run. *)

\* C9: the output document is written only after every selected source was
\* loaded and the merged records were normalized and segmented; a run with no
\* source selected, or in which loading or normalization raised, writes
\* nothing.
C9_NoWriteOnFailure ==
    /\ pc \in {"select", "cancelled", "load", "error", "generate"} => ~written
    /\ written =>
        /\ file_paths /= <<>>
        /\ err = NoError
        /\ idx = Len(file_paths) + 1
        /\ Len(all_dfs) = Len(file_paths)
        /\ df \in clean_and_transform_data(concat(all_dfs))

\* normalization raised after every source had been loaded
C9_Witness ==
    /\ pc = "error"
    /\ err = ErrValue
    /\ idx = Len(file_paths) + 1
    /\ ~written

\* the record converts: lines 82-95 raise nothing on it
Converts(r) == ~ConversionFails(<<r>>)

\* C10: a record the Normalizer rejects does not abort the batch: once every
\* source is loaded, a run that holds a valid record goes on to the export.
C10_RejectDoesNotAbort ==
    ( /\ pc /= "load"
      /\ idx = Len(file_paths) + 1
      /\ \E i \in 1..Len(concat(all_dfs)) : Converts(concat(all_dfs)[i])
      /\ \E i \in 1..Len(concat(all_dfs)) : ~Converts(concat(all_dfs)[i]) )
    => pc \in {"generate", "open", "done"}

---------------------------------------------------------------------------
(* Properties of the exported hierarchy. *)

\* the day ids of the export, in its order
ExportedDayIds == [k \in DOMAIN days_data |-> days_data[k].day_id]

\* the distinct elements of ids in the order of their first occurrence
RECURSIVE FirstSeen(_)
FirstSeen(ids) ==
    IF ids = <<>> THEN <<>>
    ELSE LET rest == FirstSeen(SubSeq(ids, 1, Len(ids) - 1))
         IN  IF ids[Len(ids)] \in Range(rest) THEN rest ELSE Append(rest, ids[Len(ids)])

\* the day ids of the selected sources, in the order they are first met
SourceDayIds == FirstSeen([i \in DOMAIN file_paths |-> DayId(file_paths[i])])

\* C11: the Days of the export are in the order in which the distinct day
\* ids are first met in the sequence of sources.
C11_DaysInFirstSeenOrder ==
    pc = "done" => ExportedDayIds = SourceDayIds

\* what groupby('day_id') gives instead: the distinct day ids of the sources
\* in strictly ascending order of the day id texts (by code point)
DaysInAscendingOrder ==
    pc = "done" =>
        /\ Range(ExportedDayIds) = Range(SourceDayIds)
        /\ \A k \in 1..(Len(ExportedDayIds) - 1) :
                StrLess(ExportedDayIds[k], ExportedDayIds[k + 1])

\* C12: the distance of every exported Trip is never negative, and it is 0
\* when the Trip holds at most one Point.
C12_DistanceNonNegative ==
    \A t \in ExportedTrips :
        LET trip == days_data[t[1]].trips[t[2]]
        IN  /\ trip.distance_km >= 0
            /\ (trip.point_count <= 1 => trip.distance_km = 0)

\* an export holding a Trip of one Point and a Trip that covers ground
C12_Witness ==
    /\ pc = "done"
    /\ \E t \in ExportedTrips :
           /\ days_data[t[1]].trips[t[2]].point_count = 1
           /\ days_data[t[1]].trips[t[2]].distance_km = 0
    /\ \E t \in ExportedTrips :
           /\ days_data[t[1]].trips[t[2]].point_count > 1
           /\ days_data[t[1]].trips[t[2]].distance_km > 0

\* the rows of self.df once clean_and_transform_data has returned
CleanedRows ==
    IF pc \in {"generate", "open", "done"} THEN {df[i] : i \in DOMAIN df} ELSE {}

Magnitude(x) == IF x.m < 0 THEN Negated(x) ELSE x

\* the hemisphere flag of a record can be read back from the signed value
LatitudeRoundTrips(r) ==
    /\ (r.latitude.m < 0 <=> r.lat_indicator = <<"S">>)
    /\ Magnitude(r.latitude) = to_numeric(r.lat)

LongitudeRoundTrips(r) ==
    /\ (r.longitude.m < 0 <=> r.lon_indicator = <<"W">>)
    /\ Magnitude(r.longitude) = to_numeric(r.lon)

\* C13: for every valid record the stored latitude is negative exactly when
\* the latitude flag is S, the stored longitude is negative exactly when the
\* longitude flag is W, and their absolute values are the source magnitudes.
C13_SignRoundTrip ==
    \A r \in CleanedRows : LatitudeRoundTrips(r) /\ LongitudeRoundTrips(r)

\* C13 amended: the same, for the coordinates whose source magnitude is a
\* positive number; a magnitude of zero stays zero under either flag.
C13_SignRoundTripOfPositive ==
    \A r \in CleanedRows :
        /\ to_numeric(r.lat).m > 0 => LatitudeRoundTrips(r)
        /\ to_numeric(r.lon).m > 0 => LongitudeRoundTrips(r)

\* a cleaned table with a southern, western record and a northern, eastern
\* one, both of positive magnitudes
C13_Witness ==
    /\ pc = "done"
    /\ \E r \in CleanedRows :
           /\ r.lat_indicator = <<"S">> /\ r.lon_indicator = <<"W">>
           /\ r.latitude.m < 0 /\ r.longitude.m < 0
    /\ \E r \in CleanedRows :
           /\ r.lat_indicator = <<"N">> /\ r.lon_indicator = <<"E">>
           /\ r.latitude.m > 0 /\ r.longitude.m > 0

\* the label "<hours>h <minutes>min", or "<minutes>min" when hours is 0
DurationLabel(hours, minutes) ==
    IF hours > 0
    THEN IntToText(hours) \o <<"h", " ">> \o IntToText(minutes)
             \o <<"m", "i", "n">>
    ELSE IntToText(minutes) \o <<"m", "i", "n">>

\* C14: the duration string of a Trip spanning T seconds is
\* "<hours>h <minutes>min" when hours > 0 and "<minutes>min" otherwise, where
\* hours is T integer-divided by 3600 and minutes is T integer-divided by 60.
C14_MinutesOfTotal ==
    \A t \in ExportedTrips :
        LET trip == days_data[t[1]].trips[t[2]]
            T    == trip.end_time - trip.start_time
        IN  trip.duration_str = DurationLabel(T \div 3600, T \div 60)

\* C14 amended: the same with minutes the remainder of T by 3600
\* integer-divided by 60, the minutes past the last full hour.
C14_MinutesOfRemainder ==
    \A t \in ExportedTrips :
        LET trip == days_data[t[1]].trips[t[2]]
            T    == trip.end_time - trip.start_time
        IN  trip.duration_str = DurationLabel(T \div 3600, (T % 3600) \div 60)

\* an export with a Trip of one hour, labelled "1h 0min"
C14_Witness ==
    /\ pc = "done"
    /\ \E t \in ExportedTrips :
           /\ days_data[t[1]].trips[t[2]].end_time
                - days_data[t[1]].trips[t[2]].start_time = 3600
           /\ days_data[t[1]].trips[t[2]].duration_str
                = <<"1", "h", " ", "0", "m", "i", "n">>

\* C15: the Time-Groups of every Trip are non-empty; the i-th group, counted
\* from 0, has index i and the time of the instant start + 30 * i seconds;
\* there are floor((end - start) / 30) + 1 groups.
C15_TimeGroupsEvery30Seconds ==
    \A t \in ExportedTrips :
        LET trip == days_data[t[1]].trips[t[2]]
            n    == Len(trip.time_groups)
        IN  /\ n >= 1
            /\ n = (trip.end_time - trip.start_time) \div 30 + 1
            /\ \A i \in 0..(n - 1) :
                   /\ trip.time_groups[i + 1].index = i
                   /\ trip.time_groups[i + 1].time
                        = strftime(trip.start_time + 30 * i)

\* an export with a Trip spanning 1801 seconds, of 61 groups, the last one
\* at 00:15:00
C15_Witness ==
    /\ pc = "done"
    /\ \E t \in ExportedTrips :
           LET trip == days_data[t[1]].trips[t[2]]
           IN  /\ trip.end_time - trip.start_time = 1801
               /\ Len(trip.time_groups) = 61
               /\ trip.time_groups[61].time
                    = <<"0", "0", ":", "1", "5", ":", "0", "0">>

\* C16: the cutoff of the last Time-Group of a Trip is at or after the
\* instant of every Point of the Trip, so the slider at its maximum (line 546)
\* shows the whole Trip.
C16_WholeTripAtMaximum ==
    \A t \in ExportedTrips :
        LET trip == days_data[t[1]].trips[t[2]]
            last == Len(trip.time_groups) - 1
        IN  /\ \A i \in DOMAIN trip.points :
                   trip.points[i].datetime <= trip.start_time + 30 * last
            /\ visiblePoints(trip, last) = trip.points

===========================================================================
